---- MODULE Spec2Model ----
(***************************************************************************)
(* State-machine model of the ACLED client (src/src/acled_client.py) and   *)
(* of the de-duplication step of src/src/download_ethiopia.py.             *)
(*                                                                         *)
(* The client is single threaded.  Every network request is one step of    *)
(* the model; the environment (token provider, data endpoint, clock)       *)
(* chooses the response.  The deterministic code around a request is part  *)
(* of the step that issues it.                                             *)
(*                                                                         *)
(* Environment assumptions (spec.md section 6, RFC 6749 section 5.1): a    *)
(* 200 answer of the token endpoint is a JSON object that carries          *)
(* access_token (refresh_token and expires_in are optional); a 200 answer  *)
(* of the data endpoint is a JSON object (data and count are optional).    *)
(***************************************************************************)
EXTENDS Integers, Sequences, FiniteSets, TLC

VARIABLES
    username, password,                          \* credentials (lines 46-47)
    access_token, refresh_token, token_expires_at,   \* token state (lines 52-54)
    now, ticks,                                  \* time.time() and the number of clock advances
    op, pc, ret,                                 \* running operation, position, continuation
    limit, max_pages, all_data, offset, page,    \* arguments and locals of get_all_pages / get_data
    response,                                    \* local `response` of _make_request
    log,                                         \* requests issued by the current get_data / ensure_valid call
    pages,                                       \* pages folded by the current get_all_pages call
    sleeps,                                      \* time.sleep(0.5) calls of the current get_all_pages call
    page_requests,                               \* get_data calls of the current operation
    result,                                      \* outcome of the last finished operation
    entry,                                       \* token state and time when _ensure_valid_token was entered
    prev,                                        \* summary of the operation that finished before the current one
    network_used,                                \* whether any request was issued since process start
    df, df_out, removed                          \* download_ethiopia: frame before / after drop_duplicates

creds  == <<username, password>>
token  == <<access_token, refresh_token, token_expires_at>>
clock  == <<now, ticks>>
locals == <<limit, max_pages, all_data, offset, page>>
dedup  == <<df, df_out, removed>>
vars   == <<username, password, access_token, refresh_token, token_expires_at,
            now, ticks, op, pc, ret, limit, max_pages, all_data, offset, page,
            response, log, pages, sleeps, page_requests, result, entry, prev,
            network_used, df, df_out, removed>>

---------------------------------------------------------------------------
(* Bounds of the model *)
NumTokens == 1        \* distinct opaque token strings the provider may issue
MaxTicks  == 1        \* clock advances in one behaviour
MaxLimit  == 2        \* largest page size `limit` a caller passes
MaxCount  == 5        \* largest total count the data endpoint reports
MaxRows   == 3        \* longest record list handed to the de-duplication
StartTime == 100000   \* time.time() at process start

(* Program constants *)
SafetyMargin     == 60      \* "- 60  # 1 minute buffer"
DefaultExpiresIn == 3600    \* token_data.get("expires_in", 3600)

None == -1                  \* Python None of an Optional token / number
Unset == "<unset>"          \* os.getenv of a variable that is not set

Tokens           == 1..NumTokens
RefreshTokens    == {1}              \* opaque refresh-token strings
ExpiresInChoices == {60}             \* expires_in values the provider may send
ClockSteps       == {3540}           \* amounts by which the clock may advance
ErrorStatuses    == {401, 500}
MaxPagesChoices  == {None, 0, 1, 2}

(* dict.get(key, default) *)
Get(d, k, default) == IF k \in DOMAIN d THEN d[k] ELSE default

---------------------------------------------------------------------------
(* Answers of the environment.  net = TRUE is a transport failure (timeout, *)
(* DNS, reset): requests raises a RequestException and there is no answer.  *)
NetworkFailure == [net |-> TRUE, status |-> 0, body |-> "", json |-> <<>>]

(* An error answer; its body (response.text) tells the status apart *)
HttpError(s) ==
    [net |-> FALSE, status |-> s, json |-> <<>>,
     body |-> IF s = 401 THEN "unauthorized" ELSE "server error"]

Ok(j) == [net |-> FALSE, status |-> 200, body |-> "", json |-> j]

TokenData ==
    {[access_token |-> a] : a \in Tokens}
    \cup {[access_token |-> a, refresh_token |-> r] : a \in Tokens, r \in RefreshTokens}
    \cup {[access_token |-> a, expires_in |-> e] : a \in Tokens, e \in ExpiresInChoices}
    \cup {[access_token |-> a, refresh_token |-> r, expires_in |-> e] :
              a \in Tokens, r \in RefreshTokens, e \in ExpiresInChoices}

TokenResponses ==
    {Ok(j) : j \in TokenData}
    \cup {HttpError(s) : s \in ErrorStatuses}
    \cup {NetworkFailure}

(* get_all_pages never looks into a record, so records are opaque: the     *)
(* endpoint numbers the records it serves, base being the number of        *)
(* records served before this page.                                        *)
Records(base, n) == [i \in 1..n |-> base + i]

(* The endpoint returns at most `limit` records per page; limit=0 asks for  *)
(* no explicit limit, and the model lets it answer with up to one record.  *)
PageSizes(lim) == 0..(IF lim = 0 THEN 1 ELSE lim)

PageData(base, lim) ==
    {[data |-> Records(base, n), count |-> c] : n \in PageSizes(lim), c \in 0..MaxCount}
    \cup {[data |-> Records(base, n)] : n \in PageSizes(lim)}
    \cup {[count |-> MaxCount]}

DataResponses(base, lim) ==
    {Ok(j) : j \in PageData(base, lim)}
    \cup {HttpError(s) : s \in ErrorStatuses}
    \cup {NetworkFailure}

---------------------------------------------------------------------------
(* Exceptions.  cls is the Python class of the raised exception.            *)
NoExc == [cls |-> "", msg |-> "", status |-> 0, body |-> ""]

Exc(c, m, s, b) == [cls |-> c, msg |-> m, status |-> s, body |-> b]

NoResponse == [net |-> FALSE, status |-> 0, body |-> "", json |-> <<>>]

Returned(v) == [ok |-> TRUE, exc |-> NoExc, value |-> v]

Raised(e) == [ok |-> FALSE, exc |-> e, value |-> <<>>]

---------------------------------------------------------------------------
(* faulty variant: the password is not validated *)
CredentialsMissing_UsernameOnly(u, p) == u \in {Unset, ""}

(* __init__, line 57: `if not self.username or not self.password` *)
CredentialsMissing(u, p) == u \in {Unset, ""} \/ p \in {Unset, ""}

(* faulty variant: the safety margin is not subtracted *)
ExpiresAt_NoMargin(t, token_data) == t + Get(token_data, "expires_in", DefaultExpiresIn)

(* faulty variant: the lifetime of the token is left out of its expiry *)
ExpiresAt_NoLifetime(t, token_data) == t - SafetyMargin

(* _get_token lines 91-92 / _refresh_token lines 138-139 *)
ExpiresAt(t, token_data) == t + Get(token_data, "expires_in", DefaultExpiresIn) - SafetyMargin

(* faulty variant: every error status of the token endpoint is reported as *)
(* an authentication failure                                               *)
GetTokenError_AllUnauthorized(r) ==
    IF r.net THEN Exc("ConnectionError", "Failed to connect to ACLED API", 0, "")
    ELSE Exc("ValueError", "Authentication failed", 0, "")

(* _get_token, lines 96-106: the exception raised for a failed token request *)
GetTokenError(r) ==
    IF r.net THEN Exc("ConnectionError", "Failed to connect to ACLED API", 0, "")
    ELSE IF r.status = 401 THEN Exc("ValueError", "Authentication failed", 0, "")
    ELSE Exc("HTTPError", "Failed to obtain token", r.status, r.body)

(* _refresh_token, lines 129-145: the exception of a refresh request that   *)
(* the handler does not catch leaves as requests raised it.                 *)
RefreshError(r) ==
    IF r.net THEN Exc("RequestException", "", 0, "")
    ELSE Exc("HTTPError", "", r.status, r.body)

(* _ensure_valid_token, line 151: `if not self.access_token` *)
NeedsToken(tok) == tok = None

(* faulty variant: the expiry comparison is the wrong way round *)
TokenExpired_Inverted(exp, t) == exp # None /\ exp # 0 /\ t <= exp

(* _ensure_valid_token, line 153 *)
TokenExpired(exp, t) == exp # None /\ exp # 0 /\ t >= exp

(* _ensure_valid_token, lines 151-154: the procedure it calls, "" for none *)
EnsureValidTarget(tok, exp, t) ==
    IF NeedsToken(tok) THEN "get_token"
    ELSE IF TokenExpired(exp, t) THEN "refresh_token"
    ELSE ""

(* faulty variant: the refresh grant is attempted without a refresh token *)
NoRefreshToken_Never(rt) == FALSE

(* _refresh_token, line 117: `if not self.refresh_token` *)
NoRefreshToken(rt) == rt = None

(* faulty variant: a failed refresh is not caught *)
FallsBack_Never(r) == FALSE

(* _refresh_token, line 143: `except requests.exceptions.HTTPError`: an    *)
(* error status of the refresh request falls back to _get_token; a          *)
(* transport failure is no HTTPError and leaves _refresh_token as raised.   *)
FallsBack(r) == ~r.net /\ r.status # 200

(* faulty variant: every error status is retried with a new token *)
RetriesOn_AnyError(status, retry) == status # 200 /\ retry

(* _make_request, line 191: `response.status_code == 401 and retry` *)
RetriesOn(status, retry) == status = 401 /\ retry

(* _make_request, lines 196-204: the exception raised for a data request   *)
(* whose last assigned `response` is r, or whose transport failed.          *)
MakeRequestError(r, failed) ==
    IF failed.net THEN Exc("ConnectionError", "Failed to connect to ACLED API", 0, "")
    ELSE Exc("HTTPError", "API request failed", r.status, r.body)

(* _make_request, lines 199-204: what the handlers make of an exception     *)
(* that _get_token (line 192) raised inside the try block.  Only            *)
(* requests' HTTPError is caught; ValueError and the builtin                *)
(* ConnectionError pass through.                                            *)
RetryTokenError(e, r) ==
    IF e.cls = "HTTPError" THEN Exc("HTTPError", "API request failed", r.status, r.body)
    ELSE e

(* One issued request and its answer: the grant or "get"; for a token       *)
(* request the access token and lifetime a 200 answer carried, for a GET    *)
(* the bearer token and offset it was sent with.                            *)
Event(kind, r, tok, off) ==
    [req |-> kind, net |-> r.net, status |-> r.status, tok |-> tok, offset |-> off,
     expires_in |-> IF kind # "get" /\ ~r.net /\ r.status = 200
                    THEN Get(r.json, "expires_in", DefaultExpiresIn) ELSE None]

---------------------------------------------------------------------------
(* get_all_pages, line 312: `if max_pages and page > max_pages` *)
CeilingHit(mp, pg) == mp # None /\ mp # 0 /\ pg > mp

(* faulty variant: the empty page is not checked for *)
NoData_Never(data) == FALSE

(* get_all_pages, line 329: `if not data` *)
NoData(data) == Len(data) = 0

(* faulty variant: a full page counts as the last page *)
LastPage_FullPageStops(data, all, lim, count) == Len(data) <= lim \/ Len(all) >= count

(* faulty variant: the reported total is not consulted *)
LastPage_ShortPageOnly(data, all, lim, count) == Len(data) < lim

(* get_all_pages, line 340 *)
LastPage(data, all, lim, count) == Len(data) < lim \/ Len(all) >= count

(* faulty variant: the offset steps by one record instead of one page *)
NextOffset_ByOne(off, lim) == off + 1

(* get_all_pages, line 345: `offset += limit` *)
NextOffset(off, lim) == off + lim

(* faulty variant: a failed page request breaks the loop and the pages so far are returned *)
OnPageError_Salvage(e, all) == Returned(all)

(* get_all_pages, lines 351-354: a failed page request is re-raised *)
OnPageError(e, all) == Raised(e)

(* How an exception leaves the running operation *)
Propagate(e) == IF op = "get_all_pages" THEN OnPageError(e, all_data) ELSE Raised(e)

Snapshot == [access_token |-> access_token, refresh_token |-> refresh_token,
             token_expires_at |-> token_expires_at, now |-> now]

NoEntry == [access_token |-> None, refresh_token |-> None,
            token_expires_at |-> None, now |-> 0]

(* Whether the operation that just finished was an ensure_valid call that   *)
(* started without a token and returned normally, with no clock advance     *)
(* since it returned; and the requests it issued.                           *)
PrevSummary ==
    IF op = "ensure_valid" /\ result.ok /\ ~result.waited /\ entry.access_token = None
    THEN [acquired |-> TRUE, requests |-> [i \in 1..Len(log) |-> log[i].req]]
    ELSE [acquired |-> FALSE, requests |-> <<>>]

Done(r) == [ok |-> r.ok, exc |-> r.exc, value |-> r.value, waited |-> FALSE]

Running == [ok |-> FALSE, exc |-> NoExc, value |-> <<>>, waited |-> FALSE]

---------------------------------------------------------------------------
Init ==
    /\ username = Unset /\ password = Unset
    /\ access_token = None /\ refresh_token = None /\ token_expires_at = None
    /\ now = StartTime /\ ticks = 0
    /\ op = "" /\ pc = "new" /\ ret = ""
    /\ limit = 0 /\ max_pages = None /\ all_data = <<>> /\ offset = 0 /\ page = 1
    /\ response = NoResponse
    /\ log = <<>> /\ pages = <<>> /\ sleeps = 0 /\ page_requests = 0
    /\ result = Running
    /\ entry = NoEntry
    /\ prev = [acquired |-> FALSE, requests |-> <<>>]
    /\ network_used = FALSE
    /\ df = <<>> /\ df_out = <<>> /\ removed = 0

(* ACLEDClient.__init__, lines 45-61 *)
Construct ==
    /\ pc = "new"
    /\ \E u \in {Unset, "", "user"}, p \in {Unset, "", "secret"} :
          /\ username' = u /\ password' = p
          /\ access_token' = None /\ refresh_token' = None /\ token_expires_at' = None
          /\ op' = "__init__"
          /\ IF CredentialsMissing(u, p)
             THEN /\ pc' = "failed"
                  /\ result' = Done(Raised(Exc("ValueError", "credentials must be set", 0, "")))
             ELSE /\ pc' = "idle"
                  /\ result' = Done(Returned(<<>>))
    /\ UNCHANGED <<clock, ret, locals, response, log, pages, sleeps, page_requests,
                   entry, prev, network_used, dedup>>

(* time passes *)
Tick ==
    /\ pc \notin {"new", "failed"}
    /\ ticks < MaxTicks
    /\ \E d \in ClockSteps : now' = now + d
    /\ ticks' = ticks + 1
    /\ result' = IF pc = "idle" THEN [result EXCEPT !.waited = TRUE] ELSE result
    /\ UNCHANGED <<creds, token, op, pc, ret, locals, response, log, pages, sleeps,
                   page_requests, entry, prev, network_used, dedup>>

(* Where control goes when a token procedure returns to continuation r *)
Continue(r) == IF r = "return" THEN "idle" ELSE r

(* _ensure_valid_token entered with continuation r: lines 151-154 *)
EnsureValid(r) ==
    LET tgt == EnsureValidTarget(access_token, token_expires_at, now) IN
    /\ entry' = Snapshot
    /\ ret' = r
    /\ pc' = IF tgt = "" THEN Continue(r) ELSE tgt

(* The locals of get_all_pages and get_data do not outlive their call *)
NoLocals ==
    /\ limit' = 0 /\ max_pages' = None /\ all_data' = <<>> /\ offset' = 0 /\ page' = 1
    /\ pages' = <<>> /\ sleeps' = 0 /\ page_requests' = 0

(* caller: client._ensure_valid_token() *)
CallEnsureValid ==
    /\ pc = "idle"
    /\ op' = "ensure_valid"
    /\ prev' = PrevSummary
    /\ log' = <<>>
    /\ response' = NoResponse
    /\ EnsureValid("return")
    /\ result' = IF pc' = "idle" THEN Done(Returned(<<>>)) ELSE Running
    /\ NoLocals
    /\ UNCHANGED <<creds, token, clock, network_used, dedup>>

(* faulty variant: a failed password grant clears the token fields *)
GetToken_ClearsOnFailure ==
    /\ pc = "get_token"
    /\ \E r \in TokenResponses :
          /\ network_used' = TRUE
          /\ IF ~r.net /\ r.status = 200
             THEN /\ access_token' = Get(r.json, "access_token", None)
                  /\ refresh_token' = Get(r.json, "refresh_token", None)
                  /\ token_expires_at' = ExpiresAt(now, r.json)
                  /\ log' = Append(log, Event("password", r, access_token', None))
                  /\ pc' = Continue(ret)
                  /\ result' = IF ret = "return" THEN Done(Returned(<<>>)) ELSE result
             ELSE /\ access_token' = None /\ refresh_token' = None
                  /\ token_expires_at' = None
                  /\ log' = Append(log, Event("password", r, None, None))
                  /\ pc' = "idle"
                  /\ result' = Done(Propagate(GetTokenError(r)))
    /\ UNCHANGED <<creds, clock, op, ret, locals, response, pages, sleeps, page_requests,
                   entry, prev, dedup>>

(* _get_token, lines 72-106: the password-grant request *)
GetToken ==
    /\ pc = "get_token"
    /\ \E r \in TokenResponses :
          /\ network_used' = TRUE
          /\ IF ~r.net /\ r.status = 200
             THEN /\ access_token' = Get(r.json, "access_token", None)
                  /\ refresh_token' = Get(r.json, "refresh_token", None)
                  /\ token_expires_at' = ExpiresAt(now, r.json)
                  /\ log' = Append(log, Event("password", r, access_token', None))
                  /\ pc' = Continue(ret)
                  /\ result' = IF ret = "return" THEN Done(Returned(<<>>)) ELSE result
             ELSE /\ UNCHANGED token
                  /\ log' = Append(log, Event("password", r, None, None))
                  /\ pc' = "idle"
                  /\ result' = Done(Propagate(
                         IF ret = "mr_get2" THEN RetryTokenError(GetTokenError(r), response)
                         ELSE GetTokenError(r)))
    /\ UNCHANGED <<creds, clock, op, ret, locals, response, pages, sleeps, page_requests,
                   entry, prev, dedup>>

(* _refresh_token, lines 117-145 *)
RefreshToken ==
    /\ pc = "refresh_token"
    /\ IF NoRefreshToken(refresh_token)
       THEN /\ pc' = "get_token"
            /\ UNCHANGED <<token, log, result, network_used>>
       ELSE \E r \in TokenResponses :
            /\ network_used' = TRUE
            /\ log' = Append(log, Event("refresh", r,
                                 IF ~r.net /\ r.status = 200
                                 THEN Get(r.json, "access_token", None) ELSE None, None))
            /\ IF ~r.net /\ r.status = 200
               THEN /\ access_token' = Get(r.json, "access_token", None)
                    /\ refresh_token' = Get(r.json, "refresh_token", refresh_token)
                    /\ token_expires_at' = ExpiresAt(now, r.json)
                    /\ pc' = Continue(ret)
                    /\ result' = IF ret = "return" THEN Done(Returned(<<>>)) ELSE result
               ELSE IF FallsBack(r)
               THEN /\ UNCHANGED token
                    /\ pc' = "get_token"
                    /\ UNCHANGED result
               ELSE /\ UNCHANGED token
                    /\ pc' = "idle"
                    /\ result' = Done(Propagate(RefreshError(r)))
    /\ UNCHANGED <<creds, clock, op, ret, locals, response, pages, sleeps, page_requests,
                   entry, prev, dedup>>

(* get_data, lines 253-276, entered by a caller or by get_all_pages (line   *)
(* 319): a fresh _make_request call, which starts with ensure_valid.        *)
EnterGetData(n) ==
    /\ page_requests' = n + 1
    /\ log' = <<>>
    /\ response' = NoResponse
    /\ EnsureValid("mr_get")

(* caller: client.get_data(limit=l) *)
CallGetData ==
    /\ pc = "idle"
    /\ \E l \in 0..MaxLimit : limit' = l
    /\ op' = "get_data"
    /\ prev' = PrevSummary
    /\ offset' = 0
    /\ EnterGetData(0)
    /\ result' = Running
    /\ max_pages' = None /\ all_data' = <<>> /\ page' = 1 /\ pages' = <<>> /\ sleeps' = 0
    /\ UNCHANGED <<creds, token, clock, network_used, dedup>>

(* caller: client.get_all_pages(limit=l, max_pages=mp), lines 307-319 *)
CallGetAllPages ==
    /\ pc = "idle"
    /\ \E l \in 0..MaxLimit, mp \in MaxPagesChoices :
          /\ limit' = l /\ max_pages' = mp
          /\ op' = "get_all_pages"
          /\ prev' = PrevSummary
          /\ all_data' = <<>> /\ offset' = 0 /\ page' = 1
          /\ pages' = <<>> /\ sleeps' = 0
          /\ IF CeilingHit(mp, 1)
             THEN /\ pc' = "idle" /\ result' = Done(Returned(<<>>))
                  /\ log' = <<>> /\ response' = NoResponse /\ page_requests' = 0
                  /\ UNCHANGED <<entry, ret>>
             ELSE /\ EnterGetData(0)
                  /\ result' = Running
    /\ UNCHANGED <<creds, token, clock, network_used, dedup>>

(* What becomes of a data request that _make_request has finished, lines    *)
(* 196-204 and get_data line 276: the page goes to the caller of get_data   *)
(* or to the loop body of get_all_pages; an exception leaves the operation. *)
Deliver(r) ==
    IF ~r.net /\ r.status = 200
    THEN IF op = "get_all_pages"
         THEN /\ pc' = "fold" /\ UNCHANGED result
         ELSE /\ pc' = "idle" /\ result' = Done(Returned(Get(r.json, "data", <<>>)))
    ELSE /\ pc' = "idle"
         /\ result' = Done(Propagate(MakeRequestError(IF r.net THEN response ELSE r, r)))

(* _make_request, lines 187-197: the first GET *)
DataRequest ==
    /\ pc = "mr_get"
    /\ \E r \in DataResponses(Len(all_data), limit) :
          /\ network_used' = TRUE
          /\ log' = Append(log, Event("get", r, access_token, offset))
          /\ response' = IF r.net THEN response ELSE r
          /\ IF ~r.net /\ RetriesOn(r.status, TRUE)
             THEN /\ pc' = "get_token" /\ ret' = "mr_get2" /\ UNCHANGED result
             ELSE /\ Deliver(r) /\ UNCHANGED ret
    /\ UNCHANGED <<creds, token, clock, op, locals, pages, sleeps, page_requests,
                   entry, prev, dedup>>

(* faulty variant: a 401 answer of the re-issued GET is retried again *)
RetryRequest_RetriesAgain ==
    /\ pc = "mr_get2"
    /\ \E r \in DataResponses(Len(all_data), limit) :
          /\ network_used' = TRUE
          /\ log' = Append(log, Event("get", r, access_token, offset))
          /\ response' = IF r.net THEN response ELSE r
          /\ IF ~r.net /\ RetriesOn(r.status, TRUE)
             THEN /\ pc' = "get_token" /\ UNCHANGED result
             ELSE Deliver(r)
    /\ UNCHANGED <<creds, token, clock, op, ret, locals, pages, sleeps, page_requests,
                   entry, prev, dedup>>

(* _make_request, lines 193-197: the GET re-issued after a 401 *)
RetryRequest ==
    /\ pc = "mr_get2"
    /\ \E r \in DataResponses(Len(all_data), limit) :
          /\ network_used' = TRUE
          /\ log' = Append(log, Event("get", r, access_token, offset))
          /\ response' = IF r.net THEN response ELSE r
          /\ Deliver(r)
    /\ UNCHANGED <<creds, token, clock, op, ret, locals, pages, sleeps, page_requests,
                   entry, prev, dedup>>

(* faulty variant: folding a page ends the call and drops the access token *)
FoldPage_ForgetsToken ==
    /\ pc = "fold"
    /\ LET data == Get(response.json, "data", <<>>) IN
          /\ pages' = Append(pages, [offset |-> offset, limit |-> limit, data |-> data])
          /\ all_data' = all_data \o data
    /\ pc' = "idle" /\ result' = Done(Returned(all_data'))
    /\ access_token' = None
    /\ UNCHANGED <<creds, refresh_token, token_expires_at, clock, op, ret, limit, max_pages,
                   offset, page, response, log, sleeps, page_requests, entry, prev,
                   network_used, dedup>>

(* get_all_pages, lines 326-349 and the loop head, lines 311-319 *)
FoldPage ==
    /\ pc = "fold"
    /\ LET data   == Get(response.json, "data", <<>>)
           count  == Get(response.json, "count", 0)
           all    == all_data \o data
           seen   == [offset |-> offset, limit |-> limit, data |-> data]
       IN  /\ pages' = Append(pages, seen)
           /\ IF NoData(data)
              THEN /\ pc' = "idle" /\ result' = Done(Returned(all_data))
                   /\ UNCHANGED <<all_data, offset, page, sleeps, log, response, entry, ret,
                                  page_requests>>
              ELSE /\ all_data' = all
                   /\ IF LastPage(data, all, limit, count)
                      THEN /\ pc' = "idle" /\ result' = Done(Returned(all))
                           /\ UNCHANGED <<offset, page, sleeps, log, response, entry, ret,
                                          page_requests>>
                      ELSE /\ offset' = NextOffset(offset, limit)
                           /\ page' = page + 1
                           /\ sleeps' = sleeps + 1
                           /\ IF CeilingHit(max_pages, page + 1)
                              THEN /\ pc' = "idle" /\ result' = Done(Returned(all))
                                   /\ UNCHANGED <<log, response, entry, ret, page_requests>>
                              ELSE /\ EnterGetData(page_requests)
                                   /\ UNCHANGED result
    /\ UNCHANGED <<creds, token, clock, op, limit, max_pages, prev, network_used, dedup>>

(* The session: construction, ensure_valid and single page requests, with   *)
(* the clock running.                                                       *)
Next ==
    \/ Construct
    \/ Tick
    \/ CallEnsureValid
    \/ CallGetData
    \/ GetToken
    \/ RefreshToken
    \/ DataRequest
    \/ RetryRequest

Spec == Init /\ [][Next]_vars

(* The download loop: get_all_pages calls, one after the other.  The clock  *)
(* stands still; a token is expired at a page request when the provider     *)
(* issued it with an expires_in that the safety margin uses up.             *)
NextPages ==
    \/ Construct
    \/ CallGetAllPages
    \/ GetToken
    \/ RefreshToken
    \/ DataRequest
    \/ RetryRequest
    \/ FoldPage

SpecPages == Init /\ [][NextPages]_vars

(* The steps of a running call: a request that was issued is answered     *)
(* (requests.post has timeout=30, requests.get timeout=60) and the code     *)
(* between two requests runs to the next request.                           *)
FetchStep ==
    \/ GetToken
    \/ RefreshToken
    \/ DataRequest
    \/ RetryRequest
    \/ FoldPage

(* client.get_all_pages(...) called on a newly constructed client *)
CallGetAllPagesOnce == op = "__init__" /\ CallGetAllPages

(* One download: the client is constructed and get_all_pages is called     *)
(* once.  Its page requests meet every token state (none, valid, expired    *)
(* with or without a refresh token), the token of the first page request    *)
(* being the one its later page requests start with.                        *)
NextPagesLive ==
    \/ Construct
    \/ CallGetAllPagesOnce
    \/ FetchStep

(* The download in which a running call is never left waiting *)
SpecPagesLive == Init /\ [][NextPagesLive]_vars /\ WF_vars(FetchStep)

---------------------------------------------------------------------------
(* download_ethiopia_historical, lines 106-139: the downloaded records      *)
(* become a DataFrame and duplicates are dropped.                           *)

NaN == 0       \* pandas' missing value; identifiers are positive

(* Records as the API may return them: "v" stands for the other fields *)
RowChoices ==
    {[v |-> x] : x \in {"a", "b", "c"}}
    \cup {[data_id |-> d, v |-> x] : d \in {1, 2}, x \in {"a", "b", "c"}}
    \cup {[event_id |-> e, v |-> x] : e \in {1}, x \in {"a", "b", "c"}}
    \cup {[data_id |-> d, event_id |-> e, v |-> x] :
              d \in {1, 2}, e \in {1}, x \in {"a", "b", "c"}}

RecordLists == UNION {[1..n -> RowChoices] : n \in 0..MaxRows}

(* pd.DataFrame(all_data), line 111: the columns are the keys of all the    *)
(* records, and a record without a key gets NaN in that column.             *)
Columns(rows) == UNION {DOMAIN rows[i] : i \in 1..Len(rows)}

DataFrame(rows) ==
    [i \in 1..Len(rows) |-> [c \in Columns(rows) |-> Get(rows[i], c, NaN)]]

(* lines 126-134: the subset of columns that drop_duplicates compares *)
DedupSubset(columns) ==
    IF "data_id" \in columns THEN {"data_id"}
    ELSE IF "event_id" \in columns THEN {"event_id"}
    ELSE columns

(* pandas duplicated(): two rows are duplicates when they agree on every    *)
(* column of the subset; missing values count as equal to each other.       *)
SameKey(r1, r2, subset) == \A c \in subset : r1[c] = r2[c]

(* faulty variant: keep="last" *)
DropDuplicates_KeepLast(frame, subset) ==
    LET keep(i) == \A j \in (i + 1)..Len(frame) : ~SameKey(frame[j], frame[i], subset)
        F[i \in 0..Len(frame)] ==
            IF i = 0 THEN <<>>
            ELSE IF keep(i) THEN Append(F[i - 1], frame[i]) ELSE F[i - 1]
    IN  F[Len(frame)]

(* DataFrame.drop_duplicates(subset, keep="first"), lines 127, 130, 134 *)
DropDuplicates(frame, subset) ==
    LET keep(i) == \A j \in 1..(i - 1) : ~SameKey(frame[j], frame[i], subset)
        F[i \in 0..Len(frame)] ==
            IF i = 0 THEN <<>>
            ELSE IF keep(i) THEN Append(F[i - 1], frame[i]) ELSE F[i - 1]
    IN  F[Len(frame)]

InitDedup ==
    /\ username = "user" /\ password = "secret"
    /\ access_token = None /\ refresh_token = None /\ token_expires_at = None
    /\ now = StartTime /\ ticks = 0
    /\ op = "download" /\ pc = "downloaded" /\ ret = ""
    /\ limit = 0 /\ max_pages = None /\ offset = 0 /\ page = 1
    /\ all_data \in RecordLists
    /\ response = NoResponse
    /\ log = <<>> /\ pages = <<>> /\ sleeps = 0 /\ page_requests = 0
    /\ result = Running
    /\ entry = NoEntry
    /\ prev = [acquired |-> FALSE, requests |-> <<>>]
    /\ network_used = TRUE
    /\ df = <<>> /\ df_out = <<>> /\ removed = 0

(* download_ethiopia_historical, lines 107-139 *)
Deduplicate ==
    /\ pc = "downloaded"
    /\ pc' = "deduplicated"
    /\ IF Len(all_data) = 0
       THEN df' = <<>> /\ df_out' = <<>> /\ removed' = 0
       ELSE /\ df' = DataFrame(all_data)
            /\ df_out' = DropDuplicates(df', DedupSubset(Columns(all_data)))
            /\ removed' = Len(df') - Len(df_out')
    /\ result' = Done(Returned(df_out'))
    /\ UNCHANGED <<creds, token, clock, op, ret, locals, response, log, pages, sleeps,
                   page_requests, entry, prev, network_used>>

NextDedup == Deduplicate

SpecDedup == InitDedup /\ [][NextDedup]_vars

---------------------------------------------------------------------------
(* Vocabulary of the properties *)
Last(s) == s[Len(s)]

GetEvents == SelectSeq(log, LAMBDA e : e.req = "get")

Answered(e, s) == ~e.net /\ e.status = s

Failed(e) == e.net \/ e.status # 200

(* spec.md section 7: AuthenticationError is the error of line 98 *)
IsAuthenticationError(e) == e.cls = "ValueError" /\ e.msg = "Authentication failed"

Finished(o) == op = o /\ pc = "idle"

PageLen(i) == Len(pages[i].data)

Flatten(ps) ==
    LET F[i \in 0..Len(ps)] == IF i = 0 THEN <<>> ELSE F[i - 1] \o ps[i].data
    IN  F[Len(ps)]

---------------------------------------------------------------------------
(* C1: when the data GET of fetch_page answers 401, a fresh token is       *)
(* acquired by a password grant and the same GET is re-issued once with    *)
(* the new bearer token; the call raises AuthenticationError exactly when  *)
(* the retried GET also answers 401.  Stated of the calls that re-issued   *)
(* the GET.                                                                *)
C1_SecondUnauthorizedIsAuthenticationError ==
    (Finished("get_data") /\ Len(GetEvents) = 2) =>
        /\ Answered(GetEvents[1], 401)
        /\ GetEvents[2].offset = GetEvents[1].offset
        /\ log[Len(log) - 1].req = "password"
        /\ ~Failed(log[Len(log) - 1])
        /\ GetEvents[2].tok = log[Len(log) - 1].tok
        /\ IsAuthenticationError(result.exc) <=> Answered(GetEvents[2], 401)

---------------------------------------------------------------------------
(* C2: without a page ceiling, a download whose pages are k full pages      *)
(* followed by a page of 1..limit-1 records, with the true total reported,  *)
(* makes k+1 page requests and returns all k*limit + r records: it never    *)
(* stops after a full page while the reported total is not reached, and a   *)
(* short page is always the last one.                                       *)
C2_FullPagesThenShortPage ==
    (op = "get_all_pages" /\ limit >= 1) =>
        /\ \A i \in 1..Len(pages) :
              (PageLen(i) >= 1 /\ PageLen(i) < limit) =>
                  /\ i = Len(pages)
                  /\ pc = "idle" /\ result.ok
                  /\ page_requests = Len(pages)
                  /\ result.value = Flatten(pages)
                  /\ (\A j \in 1..(i - 1) : PageLen(j) = limit)
                        => Len(result.value) = (i - 1) * limit + PageLen(i)
        /\ ~ ( /\ pc = "idle" /\ result.ok /\ max_pages = None
               /\ Len(pages) >= 1
               /\ \A j \in 1..Len(pages) : PageLen(j) = limit
               /\ Get(response.json, "count", 0) > Len(all_data) )

C2_Witness ==
    /\ Finished("get_all_pages") /\ result.ok
    /\ limit = 2 /\ max_pages = None
    /\ Len(pages) = 3 /\ PageLen(1) = 2 /\ PageLen(2) = 2 /\ PageLen(3) = 1
    /\ Get(response.json, "count", 0) = 5
    /\ page_requests = 3 /\ Len(result.value) = 5

---------------------------------------------------------------------------
(* C3: when the first page has records and the second page has none, the    *)
(* download makes exactly 2 page requests and returns the first page's      *)
(* records, whatever total count the second answer reports.                 *)
C3_EmptySecondPageStops ==
    (op = "get_all_pages" /\ Len(pages) >= 2 /\ PageLen(1) >= 1 /\ PageLen(2) = 0) =>
        /\ Len(pages) = 2 /\ page_requests = 2
        /\ pc = "idle" /\ result.ok
        /\ result.value = pages[1].data

C3_Witness ==
    /\ Finished("get_all_pages") /\ result.ok
    /\ Len(pages) = 2 /\ PageLen(1) >= 1 /\ PageLen(2) = 0
    /\ Get(response.json, "count", 0) > Len(all_data)

---------------------------------------------------------------------------
(* C4 as claimed: an ensure_valid call made right after an ensure_valid     *)
(* call that started without a token and succeeded issues no request and    *)
(* leaves the token state alone, so the two calls issue one request.        *)
C4_SecondCallIssuesNothing ==
    (op = "ensure_valid" /\ prev.acquired) =>
        /\ prev.requests = <<"password">>
        /\ pc = "idle" /\ result.ok /\ log = <<>>
        /\ access_token = entry.access_token
        /\ refresh_token = entry.refresh_token
        /\ token_expires_at = entry.token_expires_at

(* C4 amended: the same, when the token the first call acquired is fresh    *)
(* at the second call (its expires_in exceeds the 60 second margin).        *)
C4_SecondCallIssuesNothingWhileFresh ==
    (op = "ensure_valid" /\ prev.acquired /\ entry.now < entry.token_expires_at) =>
        /\ prev.requests = <<"password">>
        /\ pc = "idle" /\ result.ok /\ log = <<>>
        /\ access_token = entry.access_token
        /\ refresh_token = entry.refresh_token
        /\ token_expires_at = entry.token_expires_at

C4_Witness ==
    /\ Finished("ensure_valid") /\ prev.acquired /\ entry.now < entry.token_expires_at
    /\ result.ok /\ log = <<>> /\ access_token # None

---------------------------------------------------------------------------
(* What C5 says of a finished ensure_valid call *)
OneRefreshThenFallback ==
    /\ Len(log) >= 1 /\ log[1].req = "refresh"
    /\ \A i \in 2..Len(log) : log[i].req # "refresh"
    /\ (~log[1].net /\ log[1].status # 200) =>
          /\ Len(log) = 2 /\ log[2].req = "password"
          /\ result.ok <=> ~Failed(log[2])
          /\ ~result.ok =>
                /\ result.exc.msg \in {"Authentication failed", "Failed to obtain token",
                                       "Failed to connect to ACLED API"}
                /\ result.exc.cls = "HTTPError" => result.exc.status = log[2].status
          /\ result.ok => access_token = log[2].tok /\ access_token # None

(* C5 as claimed: with an access token held and now >= expires_at,          *)
(* ensure_valid issues exactly one refresh-grant request; when that gets an *)
(* HTTP error answer exactly one password grant follows, the refresh error  *)
(* does not reach the caller, and a successful acquisition leaves           *)
(* access_token set.                                                        *)
C5_ExpiredTokenIsRefreshedOnce ==
    (Finished("ensure_valid") /\ entry.access_token # None
        /\ entry.now >= entry.token_expires_at) => OneRefreshThenFallback

(* C5 amended: the same, when a refresh token is held as well *)
C5_ExpiredTokenWithRefreshTokenIsRefreshedOnce ==
    (Finished("ensure_valid") /\ entry.access_token # None
        /\ entry.refresh_token # None
        /\ entry.now >= entry.token_expires_at) => OneRefreshThenFallback

C5_Witness ==
    /\ Finished("ensure_valid") /\ entry.access_token # None
    /\ entry.refresh_token # None /\ entry.now >= entry.token_expires_at
    /\ Len(log) = 2 /\ log[1].req = "refresh" /\ Answered(log[1], 500)
    /\ log[2].req = "password" /\ ~Failed(log[2])
    /\ result.ok /\ access_token # None

---------------------------------------------------------------------------
(* C6: a download whose last request failed raises that error and returns   *)
(* nothing of what it had accumulated, however many pages it had fetched.   *)
C6_FailureDiscardsAccumulated ==
    (Finished("get_all_pages") /\ Len(log) >= 1 /\ Failed(Last(log))) =>
        /\ ~result.ok
        /\ result.exc.cls \in {"ValueError", "HTTPError", "ConnectionError", "RequestException"}
        /\ result.value = <<>>

C6_Witness ==
    /\ Finished("get_all_pages") /\ Len(log) >= 1 /\ Failed(Last(log))
    /\ Len(pages) = 2 /\ Len(all_data) >= 2
    /\ ~result.ok /\ result.value = <<>>

---------------------------------------------------------------------------
(* C7: drop_duplicates keeps exactly the first row of every key value, in   *)
(* input order, and the removed count is input length minus output length.  *)
C7_FirstSeenWinsInOrder ==
    (pc = "deduplicated") =>
        LET subset == DedupSubset(Columns(all_data))
            firsts == {i \in 1..Len(df) :
                          \A j \in 1..(i - 1) : ~SameKey(df[j], df[i], subset)}
            nth(k) == CHOOSE i \in firsts : Cardinality({j \in firsts : j < i}) = k - 1
        IN  /\ Len(df) = Len(all_data)
            /\ Len(df_out) = Cardinality(firsts)
            /\ \A k \in 1..Len(df_out) : df_out[k] = df[nth(k)]
            /\ removed = Len(all_data) - Len(df_out)

C7_Witness ==
    /\ pc = "deduplicated"
    /\ all_data = << [data_id |-> 1, v |-> "a"], [data_id |-> 2, v |-> "b"],
                     [data_id |-> 1, v |-> "c"] >>
    /\ df_out = << [data_id |-> 1, v |-> "a"], [data_id |-> 2, v |-> "b"] >>
    /\ removed = 1

---------------------------------------------------------------------------
(* C8 as claimed: when ensure_valid returns normally, access_token is       *)
(* present and the current time is strictly before expires_at.              *)
C8_ValidAfterEnsureValid ==
    (Finished("ensure_valid") /\ result.ok /\ ~result.waited) =>
        /\ access_token # None /\ token_expires_at # None
        /\ now < token_expires_at

(* C8 amended: access_token is present; the time is before expires_at when  *)
(* the call issued no token request, or when the answer that set the token  *)
(* has an expires_in (3600 when omitted) above the 60 second margin.        *)
C8_ValidAfterEnsureValidWithLifetime ==
    (Finished("ensure_valid") /\ result.ok /\ ~result.waited) =>
        /\ access_token # None /\ token_expires_at # None
        /\ (log = <<>> \/ Last(log).expires_in > 60) => now < token_expires_at

C8_Witness ==
    /\ Finished("ensure_valid") /\ result.ok /\ ~result.waited
    /\ Len(log) = 1 /\ log[1].req = "password" /\ log[1].expires_in = 3600
    /\ access_token # None /\ now < token_expires_at

---------------------------------------------------------------------------
(* C9: a client built with a missing username or password fails with the    *)
(* configuration error, and no request has been issued.                     *)
C9_MissingCredentialsFailBeforeNetwork ==
    (pc # "new" /\ (username \in {Unset, ""} \/ password \in {Unset, ""})) =>
        /\ pc = "failed" /\ op = "__init__"
        /\ ~result.ok /\ result.exc.cls = "ValueError"
        /\ ~network_used /\ log = <<>>
        /\ access_token = None

C9_Witness ==
    /\ pc = "failed" /\ username = "user" /\ password = ""
    /\ ~result.ok /\ ~network_used

---------------------------------------------------------------------------
(* C10: after each fetched page the download stops exactly when the page    *)
(* ceiling is reached, or the page is empty, or it is shorter than limit,   *)
(* or the accumulated records reach the reported total; otherwise it        *)
(* requests the next page.                                                  *)
C10_StopsIffAnyCondition ==
    [][ pc = "fold" =>
          LET data    == Get(response.json, "data", <<>>)
              count   == Get(response.json, "count", 0)
              ceiling == max_pages # None /\ Len(pages') >= max_pages
              any     == \/ ceiling
                         \/ Len(data) = 0
                         \/ Len(data) < limit
                         \/ Len(all_data') >= count
          IN  /\ (pc' = "idle") <=> any
              /\ (pc' # "idle") => page_requests' = page_requests + 1 ]_vars

---------------------------------------------------------------------------
(* C11: whenever a page ceiling max_pages (any non-negative integer) is     *)
(* given to get_all_pages, the number of page requests issued never         *)
(* exceeds max_pages.                                                       *)
C11_RequestsWithinCeiling ==
    (op = "get_all_pages" /\ max_pages # None) => page_requests <= max_pages

---------------------------------------------------------------------------
(* Whether sequence s is a prefix of sequence t *)
IsPrefix(s, t) == Len(s) <= Len(t) /\ SubSeq(t, 1, Len(s)) = s

(* C12: in get_all_pages the k-th page request carries offset (k-1)*limit   *)
(* and the same limit; the accumulator equals the in-order concatenation    *)
(* of the pages fetched so far and is what the call returns; and within     *)
(* one call the accumulator only grows.                                     *)
C12_OffsetsAndAccumulator ==
    /\ [] ( op = "get_all_pages" =>
              /\ \A k \in 1..Len(pages) :
                    pages[k].offset = (k - 1) * limit /\ pages[k].limit = limit
              /\ \A i \in 1..Len(log) :
                    log[i].req = "get" => log[i].offset = (page_requests - 1) * limit
              /\ all_data = Flatten(pages)
              /\ (pc = "idle" /\ result.ok) => result.value = all_data )
    /\ [][ (op = "get_all_pages" /\ pc # "idle") => IsPrefix(all_data, all_data') ]_vars

C12_Witness ==
    /\ Finished("get_all_pages") /\ result.ok
    /\ limit = 2 /\ Len(pages) = 3
    /\ pages[2].offset = 2 /\ pages[3].offset = 4
    /\ Len(result.value) = 5 /\ result.value = Flatten(pages)

---------------------------------------------------------------------------
(* C13: the inter-page delay occurs only between two successful page        *)
(* requests and never after the final page of the call, whichever           *)
(* condition ended the loop: a call that returned normally after n pages    *)
(* has slept at most n - 1 times.                                           *)
C13_NoDelayAfterFinalPage ==
    (Finished("get_all_pages") /\ result.ok) =>
        sleeps <= (IF Len(pages) = 0 THEN 0 ELSE Len(pages) - 1)

---------------------------------------------------------------------------
(* A step in which a token request (password or refresh grant) was answered *)
(* with a token                                                             *)
TokenIssued ==
    /\ Len(log') = Len(log) + 1
    /\ Last(log').req \in {"password", "refresh"}
    /\ ~Failed(Last(log'))

(* C14: in every token state, a present access_token comes with a present   *)
(* expires_at, and expires_at is issue_time + expires_in - 60: the step     *)
(* that is answered with a token sets it to the time of that step plus the  *)
(* answer's expires_in (3600 when omitted) minus 60, and no other step      *)
(* changes access_token or expires_at.                                      *)
C14_ExpiresAtIsIssueTimePlusLifetimeMinusMargin ==
    /\ [] (access_token # None => token_expires_at # None)
    /\ [][ IF TokenIssued
           THEN /\ access_token' = Last(log').tok /\ access_token' # None
                /\ token_expires_at' = now + Last(log').expires_in - 60
                /\ Last(log').expires_in \in ExpiresInChoices \cup {3600}
           ELSE UNCHANGED <<access_token, token_expires_at>> ]_vars

C14_Witness ==
    /\ Finished("ensure_valid") /\ result.ok
    /\ Len(log) = 1 /\ log[1].req = "refresh" /\ log[1].expires_in = 3600
    /\ now > StartTime
    /\ access_token # None /\ token_expires_at = now + 3600 - 60

---------------------------------------------------------------------------
(* C15: after a failed refresh whose fallback acquisition failed as well,   *)
(* the session is in No-Token: no access token is held.                     *)
C15_NoTokenAfterFailedRefreshAndAcquisition ==
    ( /\ pc = "idle" /\ Len(log) >= 2
      /\ log[Len(log) - 1].req = "refresh" /\ Failed(log[Len(log) - 1])
      /\ Last(log).req = "password" /\ Failed(Last(log)) )
    => access_token = None

---------------------------------------------------------------------------
(* An ensure_valid call that found an expired token and no refresh token,   *)
(* which is a call of _refresh_token with no refresh token held             *)
RefreshedWithoutRefreshToken ==
    /\ Finished("ensure_valid")
    /\ entry.access_token # None /\ entry.refresh_token = None
    /\ entry.token_expires_at # None /\ entry.now >= entry.token_expires_at

(* C16: _refresh_token called with no refresh token held issues no refresh  *)
(* request and exactly one password-grant request, and its outcome is that  *)
(* of _get_token: the token of a 200 answer is stored, and a failure raises *)
(* _get_token's error and leaves the token state alone.                     *)
C16_RefreshWithoutRefreshTokenIsAcquire ==
    RefreshedWithoutRefreshToken =>
        /\ Len(log) = 1 /\ log[1].req = "password"
        /\ result.ok <=> ~Failed(log[1])
        /\ result.ok =>
              /\ access_token = log[1].tok /\ access_token # None
              /\ ~result.waited => token_expires_at = now + log[1].expires_in - 60
        /\ ~result.ok =>
              /\ access_token = entry.access_token
              /\ refresh_token = entry.refresh_token
              /\ token_expires_at = entry.token_expires_at
              /\ result.exc.cls = (IF log[1].net THEN "ConnectionError"
                                   ELSE IF log[1].status = 401 THEN "ValueError"
                                   ELSE "HTTPError")
              /\ result.exc.cls = "HTTPError" =>
                    result.exc.msg = "Failed to obtain token" /\ result.exc.status = log[1].status

C16_Witness ==
    /\ RefreshedWithoutRefreshToken
    /\ Len(log) = 1 /\ log[1].req = "password" /\ ~Failed(log[1])
    /\ result.ok /\ access_token # None

---------------------------------------------------------------------------
(* C17: when a data GET of _make_request answers an HTTP error status other *)
(* than 401, no request follows it (no retry, no token request) and the     *)
(* call raises the API error carrying the status and body of that answer.   *)
C17_OtherStatusIsApiErrorWithoutRetry ==
    Finished("get_data") =>
        \A i \in 1..Len(log) :
            (log[i].req = "get" /\ ~log[i].net /\ log[i].status \notin {200, 401}) =>
                /\ i = Len(log)
                /\ ~result.ok
                /\ result.exc.cls = "HTTPError" /\ result.exc.msg = "API request failed"
                /\ result.exc.status = log[i].status
                /\ result.exc.body = HttpError(log[i].status).body

C17_Witness ==
    /\ Finished("get_data") /\ Len(GetEvents) = 1
    /\ Last(log).req = "get" /\ Answered(Last(log), 500)
    /\ ~result.ok /\ result.exc.status = 500 /\ result.exc.body = "server error"

---------------------------------------------------------------------------
(* C18: a network-level failure of any request made during _make_request    *)
(* (the GET, the re-issued GET, a password grant or a refresh grant) is     *)
(* the last request of the call and reaches the caller as ConnectionError.  *)
C18_NetworkFailureIsConnectivityError ==
    Finished("get_data") =>
        \A i \in 1..Len(log) :
            log[i].net =>
                /\ i = Len(log)
                /\ ~result.ok
                /\ result.exc.cls = "ConnectionError"

---------------------------------------------------------------------------
(* C19: a password grant fails with AuthenticationError exactly when the    *)
(* token endpoint answers 401, and with another error kind for every other  *)
(* error status, on every path that makes the grant: the first acquisition, *)
(* the fallback of a failed refresh, and the forced acquisition of the 401  *)
(* retry of _make_request.                                                  *)
C19_UnauthorizedGrantIsAuthenticationError ==
    (pc = "idle" /\ op \in {"ensure_valid", "get_data"}) =>
        /\ ( Len(log) >= 1 /\ Last(log).req = "password"
               /\ ~Last(log).net /\ Last(log).status # 200 ) =>
              /\ ~result.ok
              /\ IsAuthenticationError(result.exc) <=> Last(log).status = 401
              /\ Last(log).status # 401 => result.exc.cls = "HTTPError"
        /\ IsAuthenticationError(result.exc) =>
              /\ Len(log) >= 1
              /\ Last(log).req = "password" /\ Answered(Last(log), 401)

C19_Witness ==
    /\ Finished("get_data") /\ Len(log) = 3
    /\ log[2].req = "get" /\ Answered(log[2], 401)
    /\ log[3].req = "password" /\ Answered(log[3], 500)
    /\ ~result.ok /\ result.exc.cls = "HTTPError"

---------------------------------------------------------------------------
(* C20: the token state changes only in the steps of _get_token and         *)
(* _refresh_token; the data GET, the re-issued GET, the folding of a page   *)
(* and the start of a call leave it unchanged; and the credentials never    *)
(* change once the client is constructed.                                   *)
C20_TokenChangesOnlyInTokenSteps ==
    [][ /\ (token' # token) => pc \in {"get_token", "refresh_token"}
        /\ (token' # token) =>
               /\ Len(log') = Len(log) + 1
               /\ Last(log').req \in {"password", "refresh"}
        /\ pc # "new" => UNCHANGED creds ]_vars

C20_Witness ==
    /\ Finished("get_all_pages") /\ result.ok
    /\ Len(pages) = 2 /\ Len(all_data) >= 2
    /\ Len(log) = 4 /\ log[1].req = "refresh" /\ log[2].req = "get"
    /\ log[3].req = "password" /\ log[4].req = "get"
    /\ access_token # None /\ username = "user" /\ password = "secret"

---------------------------------------------------------------------------
(* The identifier the preference order selects for the downloaded records:  *)
(* data_id when a record carries it, otherwise event_id when a record       *)
(* carries it, otherwise "" for equality of the entire record.              *)
ChosenKey ==
    IF \E i \in 1..Len(all_data) : "data_id" \in DOMAIN all_data[i] THEN "data_id"
    ELSE IF \E i \in 1..Len(all_data) : "event_id" \in DOMAIN all_data[i] THEN "event_id"
    ELSE ""

InOutput(row) == \E k \in 1..Len(df_out) : df_out[k] = row

(* C21: the records are de-duplicated by data_id when available, otherwise  *)
(* by event_id when available, otherwise by equality of the entire record:  *)
(* every value of the chosen identifier survives exactly once, and a record *)
(* that lacks the chosen identifier is removed only when an equal record    *)
(* precedes it.                                                             *)
C21_KeyPreferenceAndNoMergeOfKeyless ==
    (pc = "deduplicated" /\ Len(all_data) >= 1) =>
        /\ \A i \in 1..Len(all_data) :
              ChosenKey \in DOMAIN all_data[i] =>
                  Cardinality({k \in 1..Len(df_out) :
                                   df_out[k][ChosenKey] = df[i][ChosenKey]}) = 1
        /\ ChosenKey = "" =>
              \A i \in 1..Len(all_data) :
                  Cardinality({k \in 1..Len(df_out) : df_out[k] = df[i]}) = 1
        /\ \A i \in 1..Len(all_data) :
              (ChosenKey # "" /\ ChosenKey \notin DOMAIN all_data[i]) =>
                  InOutput(df[i])

---------------------------------------------------------------------------
(* C22: get_all_pages terminates when every request is answered and the     *)
(* reported total is bounded, for every limit >= 0 and with or without a    *)
(* ceiling: a running call eventually returns the accumulated records or    *)
(* raises, after no more page requests than the bound on the total plus 1.  *)
C22_FetchAllTerminates ==
    /\ [] ( op = "get_all_pages" =>
              /\ page_requests <= MaxCount + 1
              /\ pc = "idle" => (IF result.ok THEN result.value = all_data
                                              ELSE result.exc # NoExc) )
    /\ (op = "get_all_pages" /\ pc # "idle") ~> (op = "get_all_pages" /\ pc = "idle")

C22_Witness ==
    /\ Finished("get_all_pages") /\ result.ok
    /\ limit = 0 /\ max_pages \in {None, 0}
    /\ Len(pages) = MaxCount /\ page_requests = MaxCount
    /\ Len(result.value) = MaxCount

---------------------------------------------------------------------------
(* A step in which a token request (password or refresh grant) failed, by   *)
(* an error status or at the network                                        *)
TokenRequestFailed ==
    /\ Len(log') = Len(log) + 1
    /\ Last(log').req \in {"password", "refresh"}
    /\ Failed(Last(log'))

(* C23: a token request that fails leaves access_token, refresh_token and   *)
(* expires_at as they were; a step that changes one of the three fields is  *)
(* the step of a successful token response, which assigns all three.        *)
C23_FailedTokenRequestKeepsTokenState ==
    [][ /\ TokenRequestFailed => UNCHANGED <<access_token, refresh_token, token_expires_at>>
        /\ ( \/ access_token' # access_token
             \/ refresh_token' # refresh_token
             \/ token_expires_at' # token_expires_at ) =>
               /\ TokenIssued
               /\ access_token' = Last(log').tok
               /\ token_expires_at' = now + Last(log').expires_in - 60
               /\ refresh_token' \in RefreshTokens \cup
                      (IF Last(log').req = "password" THEN {None} ELSE {refresh_token}) ]_vars

C23_Witness ==
    /\ Finished("ensure_valid") /\ ~result.ok
    /\ Len(log) = 2
    /\ log[1].req = "refresh" /\ Failed(log[1])
    /\ log[2].req = "password" /\ Failed(log[2])
    /\ entry.access_token # None /\ entry.refresh_token # None
    /\ access_token = entry.access_token
    /\ refresh_token = entry.refresh_token
    /\ token_expires_at = entry.token_expires_at

---------------------------------------------------------------------------
(* The requests of kind k that the current call has issued *)
Requests(k) == SelectSeq(log, LAMBDA e : e.req = k)

(* C24: one _make_request call issues at most 2 data GETs and at most 3     *)
(* token requests: at most one refresh grant and one fallback acquisition   *)
(* before the first GET, and at most one forced acquisition after a 401;    *)
(* and no request follows a password grant that failed.                     *)
C24_RequestsOfOneCallAreBounded ==
    op = "get_data" =>
        /\ Len(Requests("get")) <= 2
        /\ Len(Requests("refresh")) <= 1
        /\ Len(Requests("password")) <= 2
        /\ Len(log) - Len(Requests("get")) <= 3
        /\ \A i \in 1..Len(log) :
              /\ log[i].req = "refresh" => i = 1
              /\ (log[i].req = "password" /\ Failed(log[i])) => i = Len(log)
              /\ (log[i].req = "password" /\ i > 2) =>
                    (log[i - 1].req = "get" /\ Answered(log[i - 1], 401))
        /\ Len(Requests("get")) = 2 => Answered(Requests("get")[1], 401)

C24_Witness ==
    /\ Finished("get_data") /\ Len(log) = 5
    /\ log[1].req = "refresh" /\ Failed(log[1])
    /\ log[2].req = "password" /\ ~Failed(log[2])
    /\ log[3].req = "get" /\ Answered(log[3], 401)
    /\ log[4].req = "password" /\ ~Failed(log[4])
    /\ log[5].req = "get"

====
